---- MODULE Spec2Model ----
(***************************************************************************)
(* The operator-log component (components/operator-log): Component::append *)
(* decodes an envelope, validates it against the process-wide LogState and *)
(* reports the new head or a typed rejection.  LogState::validate lives in *)
(* warg_protocol::operator and is modelled from the specification (§4.2).  *)
(***************************************************************************)
EXTENDS Integers, Sequences, FiniteSets, TLC

\* ---------------------------------------------------------------- bounds
MaxRecords == 3      \* accepted records after which no further call is made
MaxEntries == 2      \* entries per submitted record
MaxTime == 1         \* timestamps range over 0..MaxTime seconds

\* ------------------------------------------------------------- constants
MaxProtocolVersion == 0

\* ------------------------------------------------------------ data model
None == <<>>
Some(x) == <<x>>
IsSome(o) == Len(o) = 1
Unwrap(o) == o[1]

Keys == {"K0", "K1"}
Permissions == {"Commit"}
HashAlgorithms == {"sha256"}
Sha256 == "sha256"

\* PublicKey::fingerprint: the key id (a string) under which a public key is known
Fingerprint(k) == <<"fp", k>>
KeyIds == {Fingerprint(k) : k \in Keys}
PublicKeyOf(id) == id[2]

\* Display of a parsed value of some kind, and FromStr, its partial inverse
to_string(kind, x) == <<kind, x>>
Malformed == <<"?">>
from_str(kind, s) == IF Len(s) = 2 /\ s[1] = kind THEN Some(s[2]) ELSE None

Instant(secs, nanos) == [secs |-> secs, nanos |-> nanos]
TimeLess(a, b) == a.secs < b.secs \/ (a.secs = b.secs /\ a.nanos < b.nanos)

\* operator::OperatorEntry
Init_(alg, key) ==
    [type |-> "Init", hash_algorithm |-> alg, key |-> key, key_id |-> None,
     permission |-> "-"]
GrantFlat(key, perm) ==
    [type |-> "GrantFlat", hash_algorithm |-> "-", key |-> key, key_id |-> None,
     permission |-> perm]
RevokeFlat(kid, perm) ==
    [type |-> "RevokeFlat", hash_algorithm |-> "-", key |-> "-", key_id |-> kid,
     permission |-> perm]
\* the identity an entry is about
EntryKeyId(e) == IF e.type = "RevokeFlat" THEN e.key_id ELSE Fingerprint(e.key)

\* Encode::encode / OperatorRecord::decode: the canonical bytes of a record
ProtoEncode(rec) == <<"bytes", rec>>
Garbage == <<"bytes">>
ProtoDecode(bytes) == IF Len(bytes) = 2 THEN Some(bytes[2]) ELSE None

\* RecordId::operator_record::<Sha256>(content_bytes)
OperatorRecordId(bytes) == [algorithm |-> Sha256, digest |-> bytes]

SIGNING_PREFIX == "WARG-OPERATOR-RECORD-SIGNATURE-V0"
Sign(k, bytes) == [by |-> k, over |-> <<SIGNING_PREFIX, bytes>>]
Verify(k, bytes, sig) == sig.by = k /\ sig.over = <<SIGNING_PREFIX, bytes>>

\* ------------------------------------------------- warg_protocol::operator
\* LogState::default(): no head, no algorithm, no permissions
DefaultLogState ==
    [head |-> None, algorithm |-> None, last_timestamp |-> None, permissions |-> <<>>]

\* operator::ValidationError, with the data each variant carries
ValidationError(tag) ==
    [tag |-> tag, key_id |-> None, permission |-> "-", version |-> -1,
     found |-> "-", expected |-> "-"]

Holds(state, kid, perm) ==
    kid \in DOMAIN state.permissions /\ perm \in state.permissions[kid]

AddPermission(perms, kid, perm) ==
    [k \in DOMAIN perms \cup {kid} |->
        IF k = kid
        THEN (IF k \in DOMAIN perms THEN perms[k] ELSE {}) \cup {perm}
        ELSE perms[k]]

\* RevokeFlat leaving the identity behind with no permission at all
RemovePermissionKeepKey(perms, kid, perm) == [perms EXCEPT ![kid] = @ \ {perm}]

RemovePermission(perms, kid, perm) ==
    LET left == perms[kid] \ {perm}
    IN  IF left = {}
        THEN [k \in DOMAIN perms \ {kid} |-> perms[k]]
        ELSE [perms EXCEPT ![kid] = left]

Ok(state) == [err |-> None, state |-> state]
Fail(state, e) == [err |-> Some(e), state |-> state]

\* step 1: position of the record in the chain
CheckChainPosition(state, rec) ==
    IF ~IsSome(state.head)
    THEN IF IsSome(rec.prev) THEN Some(ValidationError("PreviousHashOnFirstRecord")) ELSE None
    ELSE IF ~IsSome(rec.prev) THEN Some(ValidationError("NoPreviousHashAfterInit"))
    ELSE IF Unwrap(rec.prev) # Unwrap(state.head).digest
         THEN Some(ValidationError("RecordHashDoesNotMatch"))
    ELSE None

\* step 2: Init is the first entry of the first record and appears nowhere else
CheckInitPlacement(state, rec) ==
    LET n == Len(rec.entries)
        first == ~IsSome(state.head)
    IN  IF first /\ n = 0 THEN Some(ValidationError("InitialRecordDoesNotInit"))
        ELSE IF first /\ rec.entries[1].type # "Init"
             THEN Some(ValidationError("FirstEntryIsNotInit"))
        ELSE IF \E i \in 1..n : rec.entries[i].type = "Init" /\ (i > 1 \/ ~first)
             THEN Some(ValidationError("InitialEntryAfterBeginning"))
        ELSE None

\* step 3: digests referenced by the record use the algorithm fixed at Init
CheckHashAlgorithm(state, rec) ==
    IF IsSome(state.algorithm) /\ IsSome(rec.prev)
       /\ Unwrap(rec.prev).algorithm # Unwrap(state.algorithm)
    THEN Some([ValidationError("IncorrectHashAlgorithm") EXCEPT
                 !.found = Unwrap(rec.prev).algorithm,
                 !.expected = Unwrap(state.algorithm)])
    ELSE None

\* step 4: protocol version gate
CheckVersion(state, rec) ==
    IF rec.version > MaxProtocolVersion
    THEN Some([ValidationError("ProtocolVersionNotAllowed") EXCEPT !.version = rec.version])
    ELSE None

\* step 5: timestamps never go back
CheckTimestamp(state, rec) ==
    IF IsSome(state.last_timestamp) /\ TimeLess(rec.timestamp, Unwrap(state.last_timestamp))
    THEN Some(ValidationError("TimestampLowerThanPrevious"))
    ELSE None

\* step 6: the signer is a granted identity, except on the founding record
CheckSigner(state, key_id) ==
    IF IsSome(state.head) /\ key_id \notin DOMAIN state.permissions
    THEN Some([ValidationError("KeyIDNotRecognized") EXCEPT !.key_id = key_id])
    ELSE None

\* step 7: the signature verifies over the content bytes under the signer's key
CheckSignature(envelope) ==
    IF ~Verify(PublicKeyOf(envelope.key_id), envelope.content_bytes, envelope.signature)
    THEN Some(ValidationError("SignatureError"))
    ELSE None

Unauthorized(key_id) ==
    [ValidationError("UnauthorizedAction") EXCEPT !.key_id = key_id, !.permission = "Commit"]

\* step 8, one entry: check it against the state so far, then apply it
ValidateEntry(state, signer, e) ==
    IF e.type = "Init"
    THEN Ok([state EXCEPT !.algorithm = Some(e.hash_algorithm),
                          !.permissions = AddPermission(@, EntryKeyId(e), "Commit")])
    ELSE IF ~Holds(state, signer, "Commit") THEN Fail(state, Unauthorized(signer))
    ELSE IF e.type = "GrantFlat"
    THEN Ok([state EXCEPT !.permissions = AddPermission(@, EntryKeyId(e), e.permission)])
    ELSE IF ~Holds(state, EntryKeyId(e), e.permission)
         THEN Fail(state, [ValidationError("PermissionNotFoundToRevoke") EXCEPT
                              !.key_id = EntryKeyId(e), !.permission = e.permission])
    ELSE Ok([state EXCEPT !.permissions = RemovePermission(@, EntryKeyId(e), e.permission)])

\* the entries taken from the last to the first
RECURSIVE ValidateEntriesBackwards(_, _, _, _)
ValidateEntriesBackwards(state, signer, entries, i) ==
    IF i > Len(entries) THEN Ok(state)
    ELSE LET r == ValidateEntry(state, signer, entries[Len(entries) + 1 - i])
         IN  IF IsSome(r.err) THEN r
             ELSE ValidateEntriesBackwards(r.state, signer, entries, i + 1)

\* step 8: the entries in order, each against the permissions left by the previous ones
RECURSIVE ValidateEntries(_, _, _, _)
ValidateEntries(state, signer, entries, i) ==
    IF i > Len(entries) THEN Ok(state)
    ELSE LET r == ValidateEntry(state, signer, entries[i])
         IN  IF IsSome(r.err) THEN r ELSE ValidateEntries(r.state, signer, entries, i + 1)

FirstError(checks) ==
    LET bad == {i \in 1..Len(checks) : IsSome(checks[i])}
    IN  IF bad = {} THEN None
        ELSE checks[CHOOSE i \in bad : \A j \in bad : i <= j]

\* step 9: the new head and timestamp
Commit(state, envelope) ==
    [state EXCEPT !.head = Some([digest |-> OperatorRecordId(envelope.content_bytes)]),
                  !.last_timestamp = Some(envelope.contents.timestamp)]

\* validate looking at the signer and the signature before anything else
ValidateSignerFirst(state, envelope) ==
    LET rec == envelope.contents
        early == FirstError(<<CheckSigner(state, envelope.key_id),
                              CheckSignature(envelope),
                              CheckChainPosition(state, rec),
                              CheckInitPlacement(state, rec),
                              CheckHashAlgorithm(state, rec),
                              CheckVersion(state, rec),
                              CheckTimestamp(state, rec)>>)
    IN  IF IsSome(early) THEN Fail(state, Unwrap(early))
        ELSE LET r == ValidateEntries(state, envelope.key_id, rec.entries, 1)
             IN  IF IsSome(r.err) THEN Fail(state, Unwrap(r.err))
                 ELSE Ok(Commit(r.state, envelope))

\* LogState::validate: a rejection returns the state it was called with
Validate(state, envelope) ==
    LET rec == envelope.contents
        early == FirstError(<<CheckChainPosition(state, rec),
                              CheckInitPlacement(state, rec),
                              CheckHashAlgorithm(state, rec),
                              CheckVersion(state, rec),
                              CheckTimestamp(state, rec),
                              CheckSigner(state, envelope.key_id),
                              CheckSignature(envelope)>>)
    IN  IF IsSome(early) THEN Fail(state, Unwrap(early))
        ELSE LET r == ValidateEntries(state, envelope.key_id, rec.entries, 1)
             IN  IF IsSome(r.err) THEN Fail(state, Unwrap(r.err))
                 ELSE Ok(Commit(r.state, envelope))

\* ------------------------------------------- components/operator-log (lib.rs)
VARIABLES
    StateCell,      \* static STATE cell: None until the first get_state(), then Some(LogState)
    LOG_ID,     \* static LOG_ID cell: None until the first get_log_id(), then Some(String)
    pc,         \* "idle", or which call has just returned: "returned" for append,
                \* "encoded", "decoded", "log_id", "signing_prefix", "round_trip"
    envelope,   \* the envelope passed to the call of append that has just returned
    record_id,  \* the record id encode gave the caller for its content bytes
    ret,        \* what append returned
    arg,        \* the argument of the call of encode or decode that has just returned
    out,        \* what a call other than append returned
    old         \* the LogState the call started from

vars == <<StateCell, LOG_ID, pc, envelope, record_id, ret, arg, out, old>>

\* the LogState a caller observes: a cell never initialised holds the default state
LogStateOf(cell) == IF IsSome(cell) THEN Unwrap(cell) ELSE DefaultLogState

\* get_state as it would be if it stored a fresh state on every call
get_state_fresh(cell) == Some(DefaultLogState)

\* get_state: initialise the cell on first use, never afterwards
get_state(cell) == IF IsSome(cell) THEN cell ELSE Some(DefaultLogState)

\* OperatorValidationError of the component's interface
OperatorValidationError(tag) ==
    [tag |-> tag, key_id |-> None, permission |-> "-", version |-> -1,
     found |-> None, expected |-> None]

\* the Err arms of the match in append, one per operator::ValidationError
ValidationErrorArms(e) ==
    CASE e.tag = "FirstEntryIsNotInit" -> OperatorValidationError("FirstEntryIsNotInit")
      [] e.tag = "InitialRecordDoesNotInit" -> OperatorValidationError("InitialRecordDoesNotInit")
      [] e.tag = "KeyIDNotRecognized" ->
            [OperatorValidationError("KeyIdNotRecognized") EXCEPT !.key_id = e.key_id]
      [] e.tag = "InitialEntryAfterBeginning" ->
            OperatorValidationError("InitialEntryAfterBeginning")
      [] e.tag = "UnauthorizedAction" ->
            IF e.permission = "Commit"
            THEN [OperatorValidationError("UnauthorizedAction") EXCEPT
                     !.key_id = e.key_id, !.permission = "Commit"]
            ELSE OperatorValidationError("UnknownOperatorPermission")
      [] e.tag = "PermissionNotFoundToRevoke" ->
            IF e.permission = "Commit"
            THEN [OperatorValidationError("PermissionNotFoundToRevoke") EXCEPT
                     !.key_id = e.key_id, !.permission = "Commit"]
            ELSE OperatorValidationError("UnknownOperatorPermission")
      [] e.tag = "SignatureError" -> OperatorValidationError("SignatureInvalid")
      [] e.tag = "IncorrectHashAlgorithm" ->
            [OperatorValidationError("IncorrectHashAlgorithm") EXCEPT
                !.found = to_string("alg", e.found),
                !.expected = to_string("alg", e.expected)]
      [] e.tag = "RecordHashDoesNotMatch" -> OperatorValidationError("RecordHashDoesNotMatch")
      [] e.tag = "PreviousHashOnFirstRecord" ->
            OperatorValidationError("PreviousHashOnFirstRecord")
      [] e.tag = "NoPreviousHashAfterInit" -> OperatorValidationError("NoPreviousHashAfterInit")
      [] e.tag = "ProtocolVersionNotAllowed" ->
            [OperatorValidationError("ProtocolVersionNotAllowed") EXCEPT !.version = e.version]
      [] e.tag = "TimestampLowerThanPrevious" ->
            OperatorValidationError("TimestampLowerThanPrevious")

\* the arms with one variant reported as another
Retagged(e, from, to) == ValidationErrorArms(IF e.tag = from THEN [e EXCEPT !.tag = to] ELSE e)
MapHashMismatchAsFirstRecord(e) ==
    Retagged(e, "RecordHashDoesNotMatch", "PreviousHashOnFirstRecord")
MapNoPrevAsHashMismatch(e) == Retagged(e, "NoPreviousHashAfterInit", "RecordHashDoesNotMatch")
MapInitAfterAsFirstEntry(e) == Retagged(e, "InitialEntryAfterBeginning", "FirstEntryIsNotInit")
MapUnauthorizedAsNotFound(e) == Retagged(e, "UnauthorizedAction", "PermissionNotFoundToRevoke")
MapTimestampAsVersion(e) ==
    Retagged(e, "TimestampLowerThanPrevious", "ProtocolVersionNotAllowed")
\* the KeyIDNotRecognized arm dropping the key id it was given
MapKeyIdDropped(e) ==
    IF e.tag = "KeyIDNotRecognized" THEN OperatorValidationError("KeyIdNotRecognized")
    ELSE ValidationErrorArms(e)

\* the ProtocolVersionNotAllowed arm dropping the version it was given
MapVersionDropped(e) ==
    IF e.tag = "ProtocolVersionNotAllowed"
    THEN OperatorValidationError("ProtocolVersionNotAllowed")
    ELSE ValidationErrorArms(e)

\* the translation of a rejection by validate into the component's error
MapValidationError(e) == ValidationErrorArms(e)

RetOk(id) == [ok |-> TRUE, id |-> Some(id), err |-> OperatorValidationError("-")]
RetErr(e) == [ok |-> FALSE, id |-> None, err |-> e]

\* the Ok arm returning the link to the previous record instead of the head
HeadResultPrev(state) ==
    LET rec == Unwrap(ProtoDecode(Unwrap(state.head).digest.digest))
    IN  RetOk(to_string("hash", IF IsSome(rec.prev) THEN Unwrap(rec.prev)
                                ELSE Unwrap(state.head).digest))
\* the Ok arm looking for the head in a state that has none
HeadResultNoHead(state) == RetErr(OperatorValidationError("UnexpectedValidationError"))

\* the Ok arm of append: the id is read back from the head of the state
HeadResult(state) ==
    IF IsSome(state.head)
    THEN RetOk(to_string("hash", Unwrap(state.head).digest))
    ELSE RetErr(OperatorValidationError("UnexpectedValidationError"))

\* append decoding the content bytes before it parses the signature
append_decode_first(cell, env) ==
    LET signature == from_str("sig", env.signature)
        contents == ProtoDecode(env.content_bytes)
    IN  IF ~IsSome(contents)
        THEN [ret |-> RetErr(OperatorValidationError("FailedToDecodeOperatorRecord")),
              cell |-> cell]
        ELSE IF ~IsSome(signature)
        THEN [ret |-> RetErr(OperatorValidationError("SignatureParseFailure")), cell |-> cell]
        ELSE LET proto_envelope == [contents |-> Unwrap(contents),
                                    content_bytes |-> env.content_bytes,
                                    key_id |-> env.key_id,
                                    signature |-> Unwrap(signature)]
                 state == get_state(cell)
                 v == Validate(Unwrap(state), proto_envelope)
             IN  [ret |-> IF IsSome(v.err) THEN RetErr(MapValidationError(Unwrap(v.err)))
                          ELSE HeadResult(v.state),
                  cell |-> Some(v.state)]

\* Component::append: the value returned and the cell it leaves behind
append(cell, env) ==
    LET signature == from_str("sig", env.signature)
        contents == ProtoDecode(env.content_bytes)
    IN  IF ~IsSome(signature)
        THEN [ret |-> RetErr(OperatorValidationError("SignatureParseFailure")), cell |-> cell]
        ELSE IF ~IsSome(contents)
        THEN [ret |-> RetErr(OperatorValidationError("FailedToDecodeOperatorRecord")),
              cell |-> cell]
        ELSE LET proto_envelope == [contents |-> Unwrap(contents),
                                    content_bytes |-> env.content_bytes,
                                    key_id |-> env.key_id,
                                    signature |-> Unwrap(signature)]
                 state == get_state(cell)
                 v == Validate(Unwrap(state), proto_envelope)
             IN  [ret |-> IF IsSome(v.err) THEN RetErr(MapValidationError(Unwrap(v.err)))
                          ELSE HeadResult(v.state),
                  cell |-> Some(v.state)]

\* OperatorEntry of the component's interface: every field a string
OperatorInit(hash_algorithm, key) ==
    [type |-> "OperatorInit", hash_algorithm |-> hash_algorithm, key |-> key,
     permission |-> "-"]
OperatorGrantFlat(key, perm) ==
    [type |-> "OperatorGrantFlat", hash_algorithm |-> None, key |-> key, permission |-> perm]
OperatorRevokeFlat(key, perm) ==
    [type |-> "OperatorRevokeFlat", hash_algorithm |-> None, key |-> key, permission |-> perm]

\* encode, one entry of the loop: the parsed entry or the errno that ends encode
EncodeEntry(entry) ==
    IF entry.type = "OperatorInit"
    THEN LET hash_algorithm == from_str("alg", entry.hash_algorithm)
             key == from_str("key", entry.key)
         IN  IF ~IsSome(hash_algorithm) \/ Unwrap(hash_algorithm) \notin HashAlgorithms
             THEN [errno |-> "UnsupportedHashAlgorithm", entry |-> None]
             ELSE IF ~IsSome(key)
             THEN [errno |-> "PublicKeyParseFailure", entry |-> None]
             ELSE [errno |-> "-", entry |-> Some(Init_(Unwrap(hash_algorithm), Unwrap(key)))]
    ELSE IF entry.type = "OperatorGrantFlat"
    THEN LET key == from_str("key", entry.key)
         IN  IF ~IsSome(key)
             THEN [errno |-> "PublicKeyParseFailure", entry |-> None]
             ELSE [errno |-> "-", entry |-> Some(GrantFlat(Unwrap(key), entry.permission))]
    ELSE [errno |-> "-", entry |-> Some(RevokeFlat(entry.key, entry.permission))]

\* Duration::new(seconds as u64, nanos as u32): `as u32` wraps a negative i32 nanos to
\* 2^32 + nanos, and Duration::new carries whole seconds out of the nanoseconds.
\* 2^32 = WrapSecs * NanosPerSec + WrapNanos.  Seconds are kept non-negative here.
NanosPerSec == 1000000000
WrapSecs == 4
WrapNanos == 294967296
DurationCarry(nanos) ==
    IF nanos >= 0 THEN nanos \div NanosPerSec
    ELSE WrapSecs + ((WrapNanos + nanos) \div NanosPerSec)
DurationNanos(nanos) ==
    IF nanos >= 0 THEN nanos % NanosPerSec ELSE (WrapNanos + nanos) % NanosPerSec

\* SystemTime::UNIX_EPOCH + Duration::new(seconds as u64, nanos as u32)
SystemTimeOf(timestamp) ==
    Instant(timestamp.seconds + DurationCarry(timestamp.nanos), DurationNanos(timestamp.nanos))

\* Component::encode: the content bytes of a record and the record id derived from them
encode(rec) ==
    LET prev == IF IsSome(rec.prev) THEN from_str("hash", Unwrap(rec.prev)) ELSE None
        parsed == [i \in 1..Len(rec.entries) |-> EncodeEntry(rec.entries[i])]
        bad == {i \in 1..Len(parsed) : parsed[i].errno # "-"}
        failed(errno) == [ok |-> FALSE, errno |-> errno, content_bytes |-> Garbage,
                          record_id |-> None]
    IN  IF IsSome(rec.prev) /\ ~IsSome(prev) THEN failed("PrevRecordIdInvalidFormat")
        ELSE IF bad # {} THEN failed(parsed[CHOOSE i \in bad : \A j \in bad : i <= j].errno)
        ELSE LET operator_record ==
                     [prev |-> prev, version |-> rec.version,
                      timestamp |-> SystemTimeOf(rec.timestamp),
                      entries |-> [i \in 1..Len(parsed) |-> Unwrap(parsed[i].entry)]]
                 content_bytes == ProtoEncode(operator_record)
             IN  [ok |-> TRUE, errno |-> "-", content_bytes |-> content_bytes,
                  record_id |-> Some(to_string("hash", OperatorRecordId(content_bytes)))]

\* decode, one entry of the loop: the entry of the interface or the errno that ends decode
DecodeEntry(e) ==
    IF e.type = "Init"
    THEN [errno |-> "-",
          entry |-> Some(OperatorInit(to_string("alg", e.hash_algorithm),
                                      to_string("key", e.key)))]
    ELSE IF e.type \notin {"GrantFlat", "RevokeFlat"}
    THEN [errno |-> "UnknownOperatorEntry", entry |-> None]
    ELSE IF e.permission # "Commit"
    THEN [errno |-> "UnknownOperatorPermission", entry |-> None]
    ELSE IF e.type = "GrantFlat"
    THEN [errno |-> "-",
          entry |-> Some(OperatorGrantFlat(to_string("key", e.key), "Commit"))]
    ELSE [errno |-> "-", entry |-> Some(OperatorRevokeFlat(e.key_id, "Commit"))]

\* Component::decode: the record of the interface read back from content bytes
decode(bytes) ==
    LET decoded == ProtoDecode(bytes)
        failed(errno) == [ok |-> FALSE, errno |-> errno, rec |-> None]
    IN  IF ~IsSome(decoded) THEN failed("FailedToDecode")
        ELSE LET rec == Unwrap(decoded)
                 parsed == [i \in 1..Len(rec.entries) |-> DecodeEntry(rec.entries[i])]
                 bad == {i \in 1..Len(parsed) : parsed[i].errno # "-"}
             IN  IF rec.timestamp.secs < 0 THEN failed("FailedToDecode")
                 ELSE IF bad # {}
                 THEN failed(parsed[CHOOSE i \in bad : \A j \in bad : i <= j].errno)
                 ELSE [ok |-> TRUE, errno |-> "-",
                       rec |-> Some(
                           [prev |-> IF IsSome(rec.prev)
                                     THEN Some(to_string("hash", Unwrap(rec.prev)))
                                     ELSE None,
                            version |-> rec.version,
                            timestamp |-> [seconds |-> rec.timestamp.secs,
                                           nanos |-> rec.timestamp.nanos],
                            entries |-> [i \in 1..Len(parsed) |-> Unwrap(parsed[i].entry)]])]

\* LogId::operator_log::<Sha256>().to_string()
LogIdString == to_string("hash", [algorithm |-> Sha256, digest |-> "WARG-OPERATOR-LOG-ID-V0"])

\* get_log_id: initialise the cell on first use, never afterwards
get_log_id(cell) == IF IsSome(cell) THEN cell ELSE Some(LogIdString)

\* log_id going through the STATE cell as well and leaving a fresh state in it
log_id_through_state(statics) ==
    [ret |-> Unwrap(get_log_id(statics.log_id)),
     statics |-> [log_id |-> get_log_id(statics.log_id), state |-> Some(DefaultLogState)]]

\* Component::log_id: the value returned and the two statics as the call leaves them
log_id(statics) ==
    [ret |-> Unwrap(get_log_id(statics.log_id)),
     statics |-> [statics EXCEPT !.log_id = get_log_id(@)]]

\* Component::signing_prefix
signing_prefix == SIGNING_PREFIX

\* --------------------------------------------------------------- inputs
\* the accepted records, newest first, read off the chain of prev links
RECURSIVE Chain(_)
Chain(head) ==
    IF ~IsSome(head) THEN <<>>
    ELSE LET rec == Unwrap(ProtoDecode(Unwrap(head).digest.digest))
         IN  <<rec>> \o Chain(IF IsSome(rec.prev) THEN Some([digest |-> Unwrap(rec.prev)])
                               ELSE None)

RECURSIVE ChainIds(_)
ChainIds(head) ==
    IF ~IsSome(head) THEN {}
    ELSE LET rec == Unwrap(ProtoDecode(Unwrap(head).digest.digest))
         IN  {Unwrap(head).digest}
                \cup ChainIds(IF IsSome(rec.prev) THEN Some([digest |-> Unwrap(rec.prev)])
                              ELSE None)

Timestamps == {[seconds |-> s, nanos |-> 0] : s \in 0..MaxTime}
Versions == 0..(MaxProtocolVersion + 1)

OperatorEntries ==
    {OperatorInit(to_string("alg", a), to_string("key", k)) : a \in HashAlgorithms, k \in Keys}
        \cup {OperatorGrantFlat(to_string("key", k), p) : k \in Keys, p \in Permissions}
        \cup {OperatorRevokeFlat(Fingerprint(k), p) : k \in Keys, p \in Permissions}

OperatorEntryLists == UNION {[1..n -> OperatorEntries] : n \in 0..MaxEntries}

\* prev of a submitted record: absent, an id of the chain, or the id of other bytes
PrevChoices(state) ==
    {None} \cup {Some(to_string("hash", id)) :
                    id \in ChainIds(state.head) \cup {OperatorRecordId(Garbage)}}

\* the records a caller builds against the log as it stands
OperatorRecords(state) ==
    [prev : PrevChoices(state), version : Versions, timestamp : Timestamps,
     entries : OperatorEntryLists]

\* what encode gave the caller, or bytes that are no record at all
Encoded(state) ==
    {encode(r) : r \in OperatorRecords(state)}
        \cup {[ok |-> TRUE, errno |-> "-", content_bytes |-> Garbage, record_id |-> None]}

\* a signature string: unparsable, or a signature some key made over the bytes
Signatures(bytes) == {Malformed} \cup {to_string("sig", Sign(k, bytes)) : k \in Keys}

NoEnvelope == [content_bytes |-> Garbage, key_id |-> None, signature |-> Malformed]
NoRet == RetErr(OperatorValidationError("-"))

\* -------------------------------------------------------------- actions
Init ==
    /\ StateCell = None
    /\ LOG_ID = None
    /\ pc = "idle"
    /\ envelope = NoEnvelope
    /\ record_id = None
    /\ ret = NoRet
    /\ arg = None
    /\ out = None
    /\ old = DefaultLogState

\* one call of append, on an envelope the caller encoded and signed
AppendCall ==
    /\ pc = "idle"
    /\ Len(Chain(LogStateOf(StateCell).head)) < MaxRecords
    /\ \E e \in Encoded(LogStateOf(StateCell)), id \in KeyIds :
         \E s \in Signatures(e.content_bytes) :
            LET env == [content_bytes |-> e.content_bytes, key_id |-> id, signature |-> s]
                r == append(StateCell, env)
            IN  /\ e.ok
                /\ envelope' = env
                /\ record_id' = e.record_id
                /\ ret' = r.ret
                /\ StateCell' = r.cell
                /\ old' = LogStateOf(StateCell)
                /\ pc' = "returned"
                /\ UNCHANGED <<LOG_ID, arg, out>>

\* the caller has looked at the result
Return ==
    /\ pc # "idle"
    /\ pc' = "idle"
    /\ envelope' = NoEnvelope
    /\ record_id' = None
    /\ ret' = NoRet
    /\ arg' = None
    /\ out' = None
    /\ old' = DefaultLogState
    /\ UNCHANGED <<StateCell, LOG_ID>>

Next == AppendCall \/ Return

Spec == Init /\ [][Next]_vars

\* --------------------------------------- the other functions of the interface
CallsLeft == pc = "idle" /\ Len(Chain(LogStateOf(StateCell).head)) < MaxRecords

\* one call of encode, on a record built against the log as it stands
EncodeCall ==
    /\ CallsLeft
    /\ \E r \in OperatorRecords(LogStateOf(StateCell)) :
          /\ arg' = Some(r)
          /\ out' = Some(encode(r))
    /\ old' = LogStateOf(StateCell)
    /\ pc' = "encoded"
    /\ UNCHANGED <<StateCell, LOG_ID, envelope, record_id, ret>>

\* one call of decode, on content bytes encode produced or on bytes that are no record
DecodeCall ==
    /\ CallsLeft
    /\ \E e \in Encoded(LogStateOf(StateCell)) :
          /\ e.ok
          /\ arg' = Some(e.content_bytes)
          /\ out' = Some(decode(e.content_bytes))
    /\ old' = LogStateOf(StateCell)
    /\ pc' = "decoded"
    /\ UNCHANGED <<StateCell, LOG_ID, envelope, record_id, ret>>

\* one call of log_id
LogIdCall ==
    /\ CallsLeft
    /\ LET r == log_id([log_id |-> LOG_ID, state |-> StateCell])
       IN  /\ out' = Some(r.ret)
           /\ LOG_ID' = r.statics.log_id
           /\ StateCell' = r.statics.state
    /\ old' = LogStateOf(StateCell)
    /\ pc' = "log_id"
    /\ UNCHANGED <<envelope, record_id, ret, arg>>

\* one call of signing_prefix
SigningPrefixCall ==
    /\ CallsLeft
    /\ out' = Some(signing_prefix)
    /\ old' = LogStateOf(StateCell)
    /\ pc' = "signing_prefix"
    /\ UNCHANGED <<StateCell, LOG_ID, envelope, record_id, ret, arg>>

NextOps == AppendCall \/ EncodeCall \/ DecodeCall \/ LogIdCall \/ SigningPrefixCall \/ Return

\* the whole interface of the component
SpecOps == Init /\ [][NextOps]_vars

\* --------------------------------------------- encode followed by decode
\* nanoseconds as the interface admits them: any i32
CodecNanos == {-1, 0, 999999999, 1000000000, 2147483647}
CodecTimestamps == {[seconds |-> s, nanos |-> n] : s \in 0..MaxTime, n \in CodecNanos}
CodecEntries ==
    OperatorEntries
        \cup {OperatorInit(Malformed, to_string("key", k)) : k \in Keys}
        \cup {OperatorGrantFlat(Malformed, p) : p \in Permissions}
CodecEntryLists == UNION {[1..n -> CodecEntries] : n \in 0..MaxEntries}
CodecRecords ==
    [prev : {None, Some(Malformed), Some(to_string("hash", OperatorRecordId(Garbage)))},
     version : Versions, timestamp : CodecTimestamps, entries : CodecEntryLists]

\* a caller about to encode some record of the interface
InitCodec ==
    /\ StateCell = None
    /\ LOG_ID = None
    /\ pc = "idle"
    /\ envelope = NoEnvelope
    /\ record_id = None
    /\ ret = NoRet
    /\ arg \in {Some(r) : r \in CodecRecords}
    /\ out = None
    /\ old = DefaultLogState

\* encode of the record
EncodeArg ==
    /\ pc = "idle"
    /\ out' = Some(encode(Unwrap(arg)))
    /\ pc' = "encoded"
    /\ UNCHANGED <<StateCell, LOG_ID, envelope, record_id, ret, arg, old>>

\* decode of the content bytes encode returned
DecodeOut ==
    /\ pc = "encoded"
    /\ Unwrap(out).ok
    /\ out' = Some(decode(Unwrap(out).content_bytes))
    /\ pc' = "round_trip"
    /\ UNCHANGED <<StateCell, LOG_ID, envelope, record_id, ret, arg, old>>

NextCodec == EncodeArg \/ DecodeOut

SpecCodec == InitCodec /\ [][NextCodec]_vars

\* =========================================================== properties
Returned == pc = "returned"
\* the call got as far as validate: the signature parsed and the bytes decoded
Validated ==
    /\ Returned
    /\ IsSome(from_str("sig", envelope.signature))
    /\ IsSome(ProtoDecode(envelope.content_bytes))
Rec == Unwrap(ProtoDecode(envelope.content_bytes))
Now == LogStateOf(StateCell)
Rejected(tag) == ~ret.ok /\ ret.err.tag = tag
IsFirst == ~IsSome(old.head)
HasType(i, type) == Rec.entries[i].type = type

\* the conditions of the checks, stated on the submitted record and the state before
ChainPositionOk ==
    IF IsFirst THEN ~IsSome(Rec.prev) ELSE Rec.prev = Some(Unwrap(old.head).digest)
MisplacedInit ==
    \E i \in 1..Len(Rec.entries) : HasType(i, "Init") /\ (i > 1 \/ ~IsFirst)
InitPlacementOk ==
    /\ IsFirst => Len(Rec.entries) > 0 /\ HasType(1, "Init")
    /\ ~MisplacedInit
VersionOk == Rec.version <= MaxProtocolVersion
TimestampOk ==
    IsSome(old.last_timestamp) => ~TimeLess(Rec.timestamp, Unwrap(old.last_timestamp))
SignerOk == IsFirst \/ envelope.key_id \in DOMAIN old.permissions
SignatureOk ==
    Verify(PublicKeyOf(envelope.key_id), envelope.content_bytes,
           Unwrap(from_str("sig", envelope.signature)))

\* the keys holding Commit after the first n entries of a record, were all of them applied
RECURSIVE CommitHoldersAfter(_, _, _)
CommitHoldersAfter(holders, entries, n) ==
    IF n = 0 THEN holders
    ELSE LET h == CommitHoldersAfter(holders, entries, n - 1)
             e == entries[n]
         IN  IF e.type = "RevokeFlat" THEN h \ {e.key_id} ELSE h \cup {Fingerprint(e.key)}
HoldersBefore(i) ==
    CommitHoldersAfter({k \in DOMAIN old.permissions : "Commit" \in old.permissions[k]},
                       Rec.entries, i - 1)

\* C1 - Atomicity: a call of append that returns an error, whatever the reason and
\* whichever entry failed, leaves head, hash_algorithm, last_timestamp and permissions
\* as they were before the call.
C1_Atomicity == (Returned /\ ~ret.ok) => Now = old

\* C1 witness: a record of a non-empty log rejected on its second entry, after a first
\* entry that revoked the signer's own Commit.
C1_Witness ==
    /\ Validated /\ Rejected("UnauthorizedAction") /\ ~IsFirst
    /\ Len(Rec.entries) = 2 /\ HasType(1, "RevokeFlat")
    /\ Rec.entries[1].key_id = envelope.key_id
    /\ Holds(old, envelope.key_id, "Commit")
    /\ Now = old

\* C2 - Chain integrity: with a head present, a record whose prev is present and is not
\* the head's digest is rejected with RecordHashDoesNotMatch and the state is unchanged;
\* every record accepted after the first carries the id of the record accepted before it.
C2_ChainIntegrity ==
    Validated =>
        /\ (~IsFirst /\ IsSome(Rec.prev) /\ Unwrap(Rec.prev) # Unwrap(old.head).digest)
              => (Rejected("RecordHashDoesNotMatch") /\ Now = old)
        /\ (ret.ok /\ ~IsFirst) => Rec.prev = Some(Unwrap(old.head).digest)

\* C2 witness: on a chain of two records, a record linking to the first one (the stale
\* head) is rejected with RecordHashDoesNotMatch.
C2_Witness ==
    /\ Validated /\ Rejected("RecordHashDoesNotMatch")
    /\ Len(Chain(old.head)) = 2
    /\ Rec.prev = Chain(old.head)[1].prev

\* C3 - First-record invariants: prev present on an empty log is rejected with
\* PreviousHashOnFirstRecord, prev absent on a non-empty log with
\* NoPreviousHashAfterInit, whatever else the record, signer and signature are.
C3_FirstRecord ==
    Validated =>
        /\ (IsFirst /\ IsSome(Rec.prev)) => Rejected("PreviousHashOnFirstRecord")
        /\ (~IsFirst /\ ~IsSome(Rec.prev)) => Rejected("NoPreviousHashAfterInit")

\* C3 witness: a record without prev on a non-empty log, with a disallowed version and a
\* signature that does not verify, is rejected with NoPreviousHashAfterInit.
C3_Witness ==
    /\ Validated /\ Rejected("NoPreviousHashAfterInit")
    /\ ~IsFirst /\ ~VersionOk /\ ~SignatureOk

\* the Init entries of the accepted chain
InitCount(chain) ==
    Cardinality({<<r, i>> \in {<<r, i>> \in (1..Len(chain)) \X (1..MaxEntries + 1) :
                                  i <= Len(chain[r].entries)} :
                    chain[r].entries[i].type = "Init"})
OneInitAtTheStart ==
    IsSome(Now.head) =>
        LET chain == Chain(Now.head)
        IN  /\ InitCount(chain) = 1
            /\ chain[Len(chain)].entries[1].type = "Init"
FirstRecordNeedsInit ==
    (IsFirst /\ (Len(Rec.entries) = 0 \/ ~HasType(1, "Init")))
        => (~ret.ok /\ ~IsSome(Now.head))

\* C4 as claimed - Init placement: a first record not starting with Init is rejected and
\* the log stays empty; every record with an Init entry after the first accepted record,
\* or with an Init entry past its first position, is rejected with
\* InitialEntryAfterBeginning; the accepted chain holds exactly one Init, at its start.
C4_AsClaimed ==
    /\ OneInitAtTheStart
    /\ Validated =>
        /\ FirstRecordNeedsInit
        /\ MisplacedInit => Rejected("InitialEntryAfterBeginning")

\* C4 - Init placement, amended: such a record is always rejected and the state is
\* unchanged; the error is InitialEntryAfterBeginning whenever the record passes the
\* chain-position check and, on an empty log, starts with Init.
C4_InitPlacement ==
    /\ OneInitAtTheStart
    /\ Validated =>
        /\ FirstRecordNeedsInit
        /\ MisplacedInit =>
            /\ ~ret.ok /\ Now = old
            /\ (ChainPositionOk /\ (IsFirst => HasType(1, "Init")))
                  => Rejected("InitialEntryAfterBeginning")

\* C4 witness: a correctly chained and signed second record carrying an Init entry is
\* rejected with InitialEntryAfterBeginning.
C4_Witness ==
    /\ Validated /\ Rejected("InitialEntryAfterBeginning")
    /\ ~IsFirst /\ ChainPositionOk /\ SignerOk /\ SignatureOk
    /\ OneInitAtTheStart

\* the entries of the record that the permissions before them do not allow
Offending ==
    {i \in 1..Len(Rec.entries) :
        /\ ~HasType(i, "Init")
        /\ \/ envelope.key_id \notin HoldersBefore(i)
           \/ HasType(i, "RevokeFlat") /\ Rec.entries[i].key_id \notin HoldersBefore(i)}
FirstOffending == CHOOSE i \in Offending : \A j \in Offending : i <= j
PassesRecordChecks ==
    /\ ChainPositionOk /\ InitPlacementOk /\ VersionOk /\ TimestampOk
    /\ SignerOk /\ SignatureOk

\* C5 - Privilege enforcement: when the entry checks reach a GrantFlat or RevokeFlat
\* whose signer does not hold Commit at that moment, the record is rejected with
\* UnauthorizedAction{signer, Commit}; when they reach a RevokeFlat by a signer holding
\* Commit whose target does not hold the permission, it is rejected with
\* PermissionNotFoundToRevoke{target, permission}.  No record with such an entry is
\* accepted.
C5_Privilege ==
    (Validated /\ Offending # {}) =>
        /\ ~ret.ok
        /\ PassesRecordChecks =>
            LET e == Rec.entries[FirstOffending]
            IN  IF envelope.key_id \notin HoldersBefore(FirstOffending)
                THEN /\ Rejected("UnauthorizedAction")
                     /\ ret.err.key_id = envelope.key_id
                     /\ ret.err.permission = "Commit"
                ELSE /\ Rejected("PermissionNotFoundToRevoke")
                     /\ ret.err.key_id = e.key_id
                     /\ ret.err.permission = e.permission

\* C5 witness: on a non-empty log a signer holding Commit revokes Commit from another
\* key that was never granted it; the record is rejected with PermissionNotFoundToRevoke.
C5_Witness ==
    /\ Validated /\ Rejected("PermissionNotFoundToRevoke") /\ ~IsFirst
    /\ Holds(old, envelope.key_id, "Commit")
    /\ ret.err.key_id \notin DOMAIN old.permissions
    /\ ret.err.key_id # envelope.key_id

\* C6 as claimed - Signer recognition: every record after the founding one whose signer
\* is not in permissions is rejected with KeyIDNotRecognized{signer}.
C6_AsClaimed ==
    (Validated /\ ~IsFirst /\ envelope.key_id \notin DOMAIN old.permissions)
        => (Rejected("KeyIdNotRecognized") /\ ret.err.key_id = envelope.key_id)

\* C6 - Signer recognition, amended: such a record is never accepted and leaves the
\* state unchanged; the error is KeyIDNotRecognized{signer} whenever the chain-position,
\* Init-placement, version and timestamp checks pass.
C6_SignerRecognition ==
    (Validated /\ ~IsFirst /\ envelope.key_id \notin DOMAIN old.permissions) =>
        /\ ~ret.ok /\ Now = old
        /\ (ChainPositionOk /\ InitPlacementOk /\ VersionOk /\ TimestampOk)
              => (Rejected("KeyIdNotRecognized") /\ ret.err.key_id = envelope.key_id)

\* C6 witness: the founding key, after its only permission was revoked, signs a correctly
\* chained record with a valid signature; it is rejected with KeyIDNotRecognized.
C6_Witness ==
    /\ Validated /\ Rejected("KeyIdNotRecognized") /\ ret.err.key_id = envelope.key_id
    /\ ~IsFirst /\ SignatureOk
    /\ LET chain == Chain(old.head)
       IN  envelope.key_id = Fingerprint(chain[Len(chain)].entries[1].key)

\* what holds of time whatever the order of the checks
TimeNeverGoesBack ==
    /\ (ret.ok /\ IsSome(old.last_timestamp))
          => ~TimeLess(Rec.timestamp, Unwrap(old.last_timestamp))
    /\ ret.ok => Now.last_timestamp = Some(Rec.timestamp)
    /\ ~ret.ok => Now.last_timestamp = old.last_timestamp
    /\ (IsFirst \/ TimestampOk) => ~Rejected("TimestampLowerThanPrevious")
    /\ IsFirst => ~IsSome(old.last_timestamp)

\* C7 as claimed - Monotonic time: last_timestamp never decreases; a record with a
\* timestamp below last_timestamp is rejected with TimestampLowerThanPrevious, state
\* unchanged; the first record passes with any timestamp and an equal timestamp passes.
C7_AsClaimed ==
    Validated =>
        /\ TimeNeverGoesBack
        /\ ~TimestampOk => (Rejected("TimestampLowerThanPrevious") /\ Now = old)

\* C7 - Monotonic time, amended: a record with a timestamp below last_timestamp is always
\* rejected with the state unchanged; the error is TimestampLowerThanPrevious whenever
\* the chain-position, Init-placement and version checks pass.
C7_MonotonicTime ==
    Validated =>
        /\ TimeNeverGoesBack
        /\ ~TimestampOk =>
            /\ ~ret.ok /\ Now = old
            /\ (ChainPositionOk /\ InitPlacementOk /\ VersionOk)
                  => Rejected("TimestampLowerThanPrevious")

\* C7 witness: after two accepted records with equal timestamps, a correctly chained
\* record with an earlier timestamp is rejected with TimestampLowerThanPrevious.
C7_Witness ==
    /\ Validated /\ Rejected("TimestampLowerThanPrevious")
    /\ Len(Chain(old.head)) = 2
    /\ Chain(old.head)[1].timestamp = Chain(old.head)[2].timestamp
    /\ Now = old

OwnId == OperatorRecordId(envelope.content_bytes)

\* C8 - Result of an accepted append: when the record is accepted, head is its id,
\* last_timestamp its timestamp, and append returns that id, which is the record_id
\* encode derived from the same content bytes and the prev of the next accepted record;
\* append never returns UnexpectedValidationError, and the state moves only on Ok.
C8_AcceptedResult ==
    Returned =>
        /\ ret.err.tag # "UnexpectedValidationError"
        /\ Now # old => ret.ok
        /\ ret.ok =>
            /\ Now.head = Some([digest |-> OwnId])
            /\ Now.last_timestamp = Some(Rec.timestamp)
            /\ ret.id = Some(to_string("hash", OwnId))
            /\ ret.id = record_id
            /\ ~IsFirst =>
                to_string("hash", Unwrap(Rec.prev)) = to_string("hash", Unwrap(old.head).digest)

\* C8 witness: a second record is accepted and append returns the id encode gave for it.
C8_Witness ==
    /\ Returned /\ ret.ok /\ ~IsFirst
    /\ ret.id = record_id
    /\ Now.head = Some([digest |-> OwnId])

IsBootstrap(k) ==
    /\ IsFirst /\ ~IsSome(Rec.prev)
    /\ Len(Rec.entries) = 1 /\ HasType(1, "Init") /\ Rec.entries[1].key = k
    /\ VersionOk
    /\ envelope.key_id = Fingerprint(k) /\ SignatureOk

\* C9 - Bootstrap: on the empty log the record {prev: None, entries: [Init{A, K0}]} of an
\* allowed version, signed by K0 with a valid signature, is accepted though K0 holds no
\* permission; afterwards head is this record and hash_algorithm is A.
C9_Bootstrap ==
    \A k \in Keys :
        (Validated /\ IsBootstrap(k)) =>
            /\ DOMAIN old.permissions = {}
            /\ ret.ok
            /\ Now.head = Some([digest |-> OwnId])
            /\ Now.algorithm = Some(Rec.entries[1].hash_algorithm)

\* C9 witness: the bootstrap record of K0 has been accepted.
C9_Witness ==
    /\ Validated /\ IsBootstrap("K0") /\ ret.ok
    /\ Now.algorithm = Some(Sha256)

\* the founding key of the chain, and what the chain did to its Commit
Founder(chain) == Fingerprint(chain[Len(chain)].entries[1].key)
ChainHas(chain, type, kid) ==
    \E r \in 1..Len(chain) : \E i \in 1..Len(chain[r].entries) :
        /\ chain[r].entries[i].type = type
        /\ EntryKeyId(chain[r].entries[i]) = kid
HasGrant == \E i \in 1..Len(Rec.entries) : HasType(i, "GrantFlat")
SignedByFounder == ~IsFirst /\ envelope.key_id = Founder(Chain(old.head))

OnlyGrants == \A i \in 1..Len(Rec.entries) : HasType(i, "GrantFlat")

\* C11 - Grant then use: after bootstrap a correctly chained and signed record from a
\* key holding Commit that grants Commit to K1 is accepted and adds Commit to K1; a
\* following record signed by K1 that grants is then accepted, and a record with a
\* GrantFlat is rejected in every state where its signer does not hold Commit.
C11_GrantThenUse ==
    (Validated /\ ~IsFirst /\ HasGrant) =>
        /\ (PassesRecordChecks /\ OnlyGrants /\ Holds(old, envelope.key_id, "Commit")) =>
              /\ ret.ok
              /\ \A i \in 1..Len(Rec.entries) :
                    Holds(Now, Fingerprint(Rec.entries[i].key), Rec.entries[i].permission)
              /\ \A k \in DOMAIN old.permissions : Now.permissions[k] = old.permissions[k]
        /\ ~Holds(old, envelope.key_id, "Commit") => (~ret.ok /\ Now = old)

\* C11 witness: bootstrap by one key, a second record granting Commit to another key,
\* and a third record, signed by that other key and granting, which is accepted.
C11_Witness ==
    /\ Validated /\ ret.ok /\ HasGrant
    /\ Len(Chain(old.head)) = 2
    /\ Len(Chain(old.head)[2].entries) = 1
    /\ envelope.key_id # Founder(Chain(old.head))
    /\ \E i \in 1..Len(Chain(old.head)[1].entries) :
          /\ Chain(old.head)[1].entries[i].type = "GrantFlat"
          /\ Fingerprint(Chain(old.head)[1].entries[i].key) = envelope.key_id

\* C12 - hash_algorithm is set exactly once: unset while nothing has been accepted, set
\* by the Init entry of the first accepted record, and changed by no later append,
\* accepted or rejected.
C12_AlgorithmSetOnce ==
    /\ IsSome(Now.algorithm) <=> IsSome(Now.head)
    /\ IsSome(Now.head) =>
          LET chain == Chain(Now.head)
          IN  Now.algorithm = Some(chain[Len(chain)].entries[1].hash_algorithm)
    /\ Returned =>
          /\ (~IsFirst \/ ~ret.ok) => Now.algorithm = old.algorithm
          /\ (IsFirst /\ ret.ok) =>
                /\ ~IsSome(old.algorithm)
                /\ Now.algorithm = Some(Rec.entries[1].hash_algorithm)

\* C12 witness: a rejected append on a log of two records leaves the algorithm that the
\* first record set.
C12_Witness ==
    /\ Returned /\ ~ret.ok
    /\ Len(Chain(old.head)) = 2
    /\ Now.algorithm = Some(Sha256) /\ old.algorithm = Some(Sha256)

RevokedKeys == {Rec.entries[i].key_id : i \in {j \in 1..Len(Rec.entries) : HasType(j, "RevokeFlat")}}

C16_VersionGate ==
    (Validated /\ ~VersionOk /\ ChainPositionOk /\ InitPlacementOk) =>
        /\ Rejected("ProtocolVersionNotAllowed")
        /\ ret.err.version = Rec.version
        /\ Now = old

\* C16 witness: on a non-empty log a correctly chained record of version
\* MaxProtocolVersion + 1, otherwise acceptable, is rejected with that version reported.
C16_Witness ==
    /\ Validated /\ ~IsFirst /\ Rejected("ProtocolVersionNotAllowed")
    /\ Rec.version = MaxProtocolVersion + 1 /\ ret.err.version = MaxProtocolVersion + 1
    /\ ChainPositionOk /\ InitPlacementOk /\ TimestampOk /\ SignerOk /\ SignatureOk
    /\ Offending = {}

\* the result the order of the checks prescribes, from the record and the state before
ExpectedResult ==
    IF ~ChainPositionOk
    THEN IF IsFirst THEN "PreviousHashOnFirstRecord"
         ELSE IF ~IsSome(Rec.prev) THEN "NoPreviousHashAfterInit"
         ELSE "RecordHashDoesNotMatch"
    ELSE IF ~InitPlacementOk
    THEN IF IsFirst /\ Len(Rec.entries) = 0 THEN "InitialRecordDoesNotInit"
         ELSE IF IsFirst /\ ~HasType(1, "Init") THEN "FirstEntryIsNotInit"
         ELSE "InitialEntryAfterBeginning"
    ELSE IF ~VersionOk THEN "ProtocolVersionNotAllowed"
    ELSE IF ~TimestampOk THEN "TimestampLowerThanPrevious"
    ELSE IF ~SignerOk THEN "KeyIdNotRecognized"
    ELSE IF ~SignatureOk THEN "SignatureInvalid"
    ELSE IF Offending # {}
    THEN IF envelope.key_id \notin HoldersBefore(FirstOffending) THEN "UnauthorizedAction"
         ELSE "PermissionNotFoundToRevoke"
    ELSE "Ok"

\* C17 - Check order: the checks run as chain position, Init placement, hash algorithm,
\* version, timestamp, signer recognition, signature, entries, and the error returned is
\* that of the earliest check the record violates; a record violating none is accepted.
C17_CheckOrder ==
    Validated =>
        /\ IF ExpectedResult = "Ok" THEN ret.ok ELSE Rejected(ExpectedResult)
        /\ (~IsFirst /\ IsSome(Rec.prev) /\ ~ChainPositionOk /\ ~VersionOk)
              => Rejected("RecordHashDoesNotMatch")
        /\ (ChainPositionOk /\ InitPlacementOk /\ VersionOk /\ ~TimestampOk /\ ~SignerOk)
              => Rejected("TimestampLowerThanPrevious")
        /\ (PassesRecordChecks /\ Offending # {}) =>
              ret.err.tag \in {"UnauthorizedAction", "PermissionNotFoundToRevoke"}
        /\ (ChainPositionOk /\ InitPlacementOk /\ VersionOk /\ TimestampOk /\ ~SignerOk
                /\ HasGrant)
              => Rejected("KeyIdNotRecognized")

\* C17 witness: a correctly chained record with a timestamp below the last one, signed
\* by a key without permissions and with a signature that does not verify, is rejected
\* with TimestampLowerThanPrevious.
C17_Witness ==
    /\ Validated /\ Rejected("TimestampLowerThanPrevious")
    /\ ChainPositionOk /\ ~SignerOk /\ ~SignatureOk /\ HasGrant

RevokeThenGrant ==
    /\ Len(Rec.entries) = 2 /\ HasType(1, "RevokeFlat") /\ HasType(2, "GrantFlat")
    /\ Rec.entries[1].key_id = envelope.key_id
GrantThenRevoke ==
    /\ Len(Rec.entries) = 2 /\ HasType(1, "GrantFlat") /\ HasType(2, "RevokeFlat")
    /\ Rec.entries[2].key_id = Fingerprint(Rec.entries[1].key)

\* C18 - Entries are checked and applied in order, each against the permissions left by
\* the entries before it: a record of a Commit holder K that revokes K's Commit and then
\* grants is rejected with UnauthorizedAction and nothing of it is retained; a record of
\* a Commit holder that grants Commit to K2 and then revokes it is accepted.
C18_EntriesInOrder ==
    (Validated /\ ~IsFirst /\ PassesRecordChecks /\ Holds(old, envelope.key_id, "Commit")) =>
        /\ RevokeThenGrant =>
              /\ Rejected("UnauthorizedAction")
              /\ ret.err.key_id = envelope.key_id
              /\ Now = old
        /\ GrantThenRevoke =>
              /\ ret.ok
              /\ DOMAIN Now.permissions = DOMAIN old.permissions \ {Rec.entries[2].key_id}
              /\ \A k \in DOMAIN Now.permissions : Now.permissions[k] = old.permissions[k]

\* C18 witness: a Commit holder grants Commit to a key that held nothing and revokes it
\* in the same record; the record is accepted and the key holds nothing afterwards.
C18_Witness ==
    /\ Validated /\ ~IsFirst /\ ret.ok /\ GrantThenRevoke
    /\ Rec.entries[2].key_id \notin DOMAIN old.permissions
    /\ Rec.entries[2].key_id \notin DOMAIN Now.permissions

EarlyRejections == {"SignatureParseFailure", "FailedToDecodeOperatorRecord"}

\* C19 - append rejects before it consults the log state: a signature string that does
\* not parse gives SignatureParseFailure whatever the content bytes are; otherwise bytes
\* that do not decode give FailedToDecodeOperatorRecord; only a call passing both is
\* validated.  Both early rejections leave the LogState unchanged.
C19_EarlyRejections ==
    Returned =>
        /\ ~IsSome(from_str("sig", envelope.signature)) =>
              (Rejected("SignatureParseFailure") /\ Now = old)
        /\ (IsSome(from_str("sig", envelope.signature))
                /\ ~IsSome(ProtoDecode(envelope.content_bytes))) =>
              (Rejected("FailedToDecodeOperatorRecord") /\ Now = old)
        /\ Validated => ret.err.tag \notin EarlyRejections

\* C19 witness: on a non-empty log, a call whose signature string does not parse and
\* whose content bytes do not decode either returns SignatureParseFailure.
C19_Witness ==
    /\ Returned /\ ~IsFirst /\ Rejected("SignatureParseFailure")
    /\ ~IsSome(ProtoDecode(envelope.content_bytes))

\* the envelope submitted is the one whose record is the head of the log
Resubmitted == ~IsFirst /\ OwnId = Unwrap(old.head).digest

\* C20 - No duplicate admission: the envelope just accepted, submitted again, is
\* rejected (NoPreviousHashAfterInit if it was the first record, RecordHashDoesNotMatch
\* otherwise) and the state is unchanged; a rejected envelope submitted again against
\* the state it left gets the same rejection.
C20_NoDuplicateAdmission ==
    /\ (Validated /\ Resubmitted) =>
          /\ Rejected(IF Len(Chain(old.head)) = 1 THEN "NoPreviousHashAfterInit"
                      ELSE "RecordHashDoesNotMatch")
          /\ Now = old
    /\ (Returned /\ ret.ok) =>
          LET again == append(StateCell, envelope)
          IN  /\ ~again.ret.ok
              /\ again.ret.err.tag = (IF IsFirst THEN "NoPreviousHashAfterInit"
                                      ELSE "RecordHashDoesNotMatch")
              /\ LogStateOf(again.cell) = Now
    /\ (Returned /\ ~ret.ok) =>
          LET again == append(StateCell, envelope)
          IN  again.ret = ret /\ LogStateOf(again.cell) = Now

\* C20 witness: the second record of the log, validly signed, is submitted again right
\* after it was accepted and is rejected with RecordHashDoesNotMatch.
C20_Witness ==
    /\ Validated /\ Resubmitted /\ SignatureOk /\ SignerOk
    /\ Len(Chain(old.head)) = 2
    /\ Rejected("RecordHashDoesNotMatch")

OtherCalls == {"encoded", "decoded", "log_id", "signing_prefix"}

\* C14 - LogState is mutated only by an accepted append: encode, decode, log_id and
\* signing_prefix leave it unchanged in every state, a rejected append leaves it
\* unchanged, an accepted append extends the chain by exactly the submitted record;
\* the state starts empty and is never reset.
C14_OnlyAcceptedAppendsMutate ==
    /\ (StateCell = None \/ pc = "idle") => old = DefaultLogState
    /\ pc \in OtherCalls => Now = old
    /\ (Returned /\ ~ret.ok) => Now = old
    /\ (Returned /\ ret.ok) => Chain(Now.head) = <<Rec>> \o Chain(old.head)
    /\ (pc # "idle" /\ IsSome(old.head)) => IsSome(Now.head)

\* C14 witness: the first call of log_id, made on a log of two records, has set the
\* LOG_ID cell and returned the id; the log is as it was.
C14_Witness ==
    /\ pc = "log_id" /\ LOG_ID = Some(LogIdString) /\ out = Some(LogIdString)
    /\ Len(Chain(old.head)) = 2 /\ Now = old

\* C15 - Round trip: for every record that encode accepts, whatever its prev, version,
\* entries and timestamp seconds and nanos, decode of the content bytes succeeds and
\* returns a record equal to it in every field.
C15_RoundTrip == pc = "round_trip" => (Unwrap(out).ok /\ Unwrap(out).rec = arg)

====
